---- MODULE Spec2Model ----
(***************************************************************************)
(* A model of dropbignore.py: DropboxIgnore.set_ignore reads the ignore    *)
(* file, walks the directories under the Dropbox root with glob.iglob,     *)
(* sorts them into three lists by their com.dropbox.ignored attribute and  *)
(* by the ignore patterns, and then sets or removes the attribute.         *)
(*                                                                         *)
(* Text (file lines, patterns, path strings) is a sequence of one-         *)
(* character strings, so that str.startswith, str.split, the regular       *)
(* expression of the line filter and fnmatch are computed on characters.   *)
(* A directory is identified by the sequence of its names below the root,  *)
(* a name by a short tag; NameText gives the characters of a name and      *)
(* SubdirText the string glob yields for a directory.                      *)
(***************************************************************************)
EXTENDS Naturals, Sequences, FiniteSets

VARIABLES
    tree,             \* the directories under the root (name sequences, <<>> is the root)
    marker,           \* the directories that carry the com.dropbox.ignored attribute
    fileExists,       \* whether ~/Dropbox/.dropbignore exists
    ignoreLines,      \* its text split at "\n" (ignore_patterns_base)
    ishidden,         \* the global glob._ishidden: "glob" (the library's own) or "all_visible"
    initIshidden,     \* self._init_ishidden
    patterns,         \* self._ignore_patterns
    ignorePaths,      \* self._ignore_paths: to exclude
    ignoredPaths,     \* self._ignored_paths: already excluded
    ignoreClearPaths, \* self._ignore_clear_paths: to restore
    stack,            \* the glob.iglob generator: the pending siblings of each open level
    pc,               \* the position in set_ignore
    idx,              \* the position of the running for loop of set_ignore
    err,              \* the exception that ended set_ignore, "none" otherwise
    second,           \* whether this is a second call of set_ignore, after a first that returned
    marker0,          \* history: marker when the current call started
    marker1,          \* history: marker when the first call started
    visited,          \* history: the directories glob has yielded in this call
    queried,          \* history: the directories xattr.listxattr was called on in this call
    attempted,        \* history: the directories setxattr/removexattr was called on in this call
    skips             \* history: <<p, q>> when p was passed over because of list entry q

vars == <<tree, marker, fileExists, ignoreLines, ishidden, initIshidden, patterns,
          ignorePaths, ignoredPaths, ignoreClearPaths, stack, pc, idx, err, second,
          marker0, marker1, visited, queried, attempted, skips>>

----------------------------------------------------------------------------
(* Bounds *)

\* the largest number of directories below the root
MaxDirs == 2

\* the longest line of the ignore file in SpecLoad
MaxLineLen == 3

----------------------------------------------------------------------------
(* Text *)

Range(s) == {s[i] : i \in 1..Len(s)}

\* str.startswith(prefix)
StartsWith(s, prefix) ==
    /\ Len(prefix) <= Len(s)
    /\ SubSeq(s, 1, Len(prefix)) = prefix

RECURSIVE SplitAcc(_, _, _)
SplitAcc(s, sep, cur) ==
    IF s = <<>> THEN <<cur>>
    ELSE IF Head(s) = sep THEN <<cur>> \o SplitAcc(Tail(s), sep, <<>>)
    ELSE SplitAcc(Tail(s), sep, Append(cur, Head(s)))

\* str.split(sep) for a one-character separator
Split(s, sep) == SplitAcc(s, sep, <<>>)

RECURSIVE LStrip(_, _)
\* str.lstrip(chars)
LStrip(s, chars) ==
    IF s # <<>> /\ Head(s) \in chars THEN LStrip(Tail(s), chars) ELSE s

RECURSIVE RStrip(_, _)
\* str.rstrip(chars)
RStrip(s, chars) ==
    IF s # <<>> /\ s[Len(s)] \in chars THEN RStrip(SubSeq(s, 1, Len(s) - 1), chars) ELSE s

----------------------------------------------------------------------------
(* Program constants *)

\* _ABSOLUTE_IGNORE_PETTERNS: '.dropbox.cache/'
ABSOLUTE_IGNORE_PETTERNS ==
    { <<".", "d", "r", "o", "p", "b", "o", "x", ".", "c", "a", "c", "h", "e", "/">> }

\* os.environ['HOME'], here "/h"
HomeText == <<"/", "h">>

\* self._dropbox_path = Path(HOME) / 'Dropbox'
DropboxPathText == HomeText \o <<"/", "D", "r", "o", "p", "b", "o", "x">>

----------------------------------------------------------------------------
(* The inputs: directory names, trees, ignore files *)

\* the directory names: "a" and "ab", where the text of one begins with the text of
\* the other, and the name the built-in pattern is about
DirNames == {"a", "ab", "cache"}

\* the characters of a directory name
NameText(n) ==
    CASE n = "a" -> <<"a">>
      [] n = "ab" -> <<"a", "b">>
      [] n = "cache" -> <<".", "d", "r", "o", "p", "b", "o", "x", ".", "c", "a", "c", "h", "e">>

RECURSIVE TreesUpTo(_)
\* every tree of at most n directories below the root
TreesUpTo(n) ==
    IF n = 0 THEN {{<<>>}}
    ELSE LET T == TreesUpTo(n - 1)
         IN  T \cup UNION {{t \cup {Append(p, nm)} : p \in t, nm \in DirNames} : t \in T}

\* the ignore files of Spec, each as its lines
IgnoreFiles ==
    { << <<>> >>,                                            \* an empty file
      << <<"#", " ", "c">>, <<" ", " ">>, <<>> >>,           \* comment and blank lines only
      << <<"a", "b", "/">>, <<" ", "#">> >>,                 \* ab/
      << <<"a", "/", "a", "b">>, <<"?">> >>,                 \* a/ab and ?
      << <<"/", "h", "/", "*", "/", "a", "b">>, <<"a">> >>,  \* /h/*/ab and a
      << <<"*">> >> }                                        \* everything

\* the characters of the lines of SpecLoad
LineAlphabet == {" ", "\t", "\r", "#", "a"}

RECURSIVE LinesUpTo(_)
LinesUpTo(n) ==
    IF n = 0 THEN {<<>>}
    ELSE LET L == LinesUpTo(n - 1)
         IN  L \cup {Append(l, c) : l \in L, c \in LineAlphabet}

----------------------------------------------------------------------------
(* Paths *)

IsPrefix(q, p) == Len(q) <= Len(p) /\ SubSeq(p, 1, Len(q)) = q

\* d is q or lies below q in the tree
IsSelfOrDescendant(d, q) == IsPrefix(q, d)

StrictDescendant(d, q) == IsPrefix(q, d) /\ d # q

RECURSIVE NamesText(_)
\* the names of p, each followed by the separator
NamesText(p) ==
    IF p = <<>> THEN <<>> ELSE NameText(Head(p)) \o <<"/">> \o NamesText(Tail(p))

\* the string glob.iglob(f"{serach_path}/", recursive=True) yields for directory p:
\* every match of ".../**/" ends with the separator
SubdirText(p) == DropboxPathText \o <<"/">> \o NamesText(p)

\* os.scandir of directory p, directories only
Listdir(t, p) == {c \in t : Len(c) = Len(p) + 1 /\ IsPrefix(p, c)}

\* glob._ishidden: the library's own predicate hides the names that begin with a dot
IsHidden(pred, name) == pred = "glob" /\ Head(NameText(name)) = "."

\* glob._rlistdir: the entries of p that the current predicate does not hide
RListdir(t, p, pred) == {c \in Listdir(t, p) : ~IsHidden(pred, c[Len(c)])}

RECURSIVE DropEmpty(_)
\* the generator leaves the levels that have nothing left
DropEmpty(st) ==
    IF st # <<>> /\ Head(st) = {} THEN DropEmpty(Tail(st)) ELSE st

\* the generator after it yielded x of the innermost open level: x's entries come
\* next (pre-order), then the rest of the level
Advance(st, x, t, pred) ==
    DropEmpty(<<RListdir(t, x, pred), Head(st) \ {x}>> \o Tail(st))

----------------------------------------------------------------------------
(* Pattern matching: pathlib.PurePath.match on a POSIX flavour *)

RECURSIVE FnMatch(_, _)
\* fnmatch.fnmatchcase(name, pat) for patterns of literals, * and ?
FnMatch(s, p) ==
    IF p = <<>> THEN s = <<>>
    ELSE IF Head(p) = "*" THEN FnMatch(s, Tail(p)) \/ (s # <<>> /\ FnMatch(Tail(s), p))
    ELSE IF Head(p) = "?" THEN s # <<>> /\ FnMatch(Tail(s), Tail(p))
    ELSE s # <<>> /\ Head(s) = Head(p) /\ FnMatch(Tail(s), Tail(p))

\* _PosixFlavour.splitroot: the root of a path text
RootOf(s) ==
    LET n == Len(s) - Len(LStrip(s, {"/"}))
    IN  IF n = 0 THEN <<>> ELSE IF n = 2 THEN <<"/", "/">> ELSE <<"/">>

\* parse_parts: the root, then the names, without empty and "." names
ParseParts(s) ==
    LET names == SelectSeq(Split(s, "/"), LAMBDA x : x # <<>> /\ x # <<".">>)
    IN  IF RootOf(s) = <<>> THEN names ELSE <<RootOf(s)>> \o names

\* zip(reversed(parts), reversed(pat_parts)): the last parts match pairwise
MatchRight(parts, pats) ==
    \A k \in 0..(Len(pats) - 1) :
        k < Len(parts) => FnMatch(parts[Len(parts) - k], pats[Len(pats) - k])

\* the parts of Path(self._dropbox_path)
DropboxPathParts == ParseParts(DropboxPathText)

\* Path(subdir).parts for the directory p: a directory name holds no separator and
\* is not ".", so parsing SubdirText(p) gives the root's parts and then p's names
PathParts(p) == DropboxPathParts \o [i \in 1..Len(p) |-> NameText(p[i])]

\* PurePath.match(pat) on a path of the given parts; every path here is absolute
\* with the root "/"
PathMatch(parts, pat) ==
    LET pp == ParseParts(pat)
        root == RootOf(pat)
    IN  IF root # <<>> /\ root # <<"/">> THEN FALSE
        ELSE IF root # <<>>
             THEN Len(pp) = Len(parts) /\ MatchRight(parts, Tail(pp))
             ELSE Len(pp) <= Len(parts) /\ MatchRight(parts, pp)

\* _match_ignore_pattern(Path(subdir))
MatchIgnorePattern(p, pats) == \E pat \in pats : PathMatch(PathParts(p), pat)

----------------------------------------------------------------------------
(* _read_ignore_patterns *)

\* re.match(r"^( *)?(#.*)?$", line): spaces, then nothing or a comment
InvalidFilter(line) ==
    LET rest == LStrip(line, {" "})
    IN  rest = <<>> \/ Head(rest) = "#"

\* line 117 without the built-in patterns
ReadPatternsWithoutAbsolute(lines) == {l \in Range(lines) : ~InvalidFilter(l)}

\* the pattern set of lines 98-117
ReadPatterns(lines) ==
    {l \in Range(lines) : ~InvalidFilter(l)} \cup ABSOLUTE_IGNORE_PETTERNS

\* a missing file that is only logged
ReadTextNeverRaises(exists) == FALSE

\* Path.read_text() raises FileNotFoundError on a missing file (line 96); line 94
\* only logs
ReadTextRaises(exists) == ~exists

----------------------------------------------------------------------------
(* _search_ignore_path *)

\* str.startswith compared without the closing separator of the entries
CoveredByNoSeparator(p, paths) ==
    {q \in Range(paths) :
        StartsWith(SubdirText(p), RStrip(SubdirText(q), {"/"}))}

\* subdir.startswith(tuple(paths)): the entries of paths whose text begins subdir's
CoveredBy(p, paths) ==
    {q \in Range(paths) : StartsWith(SubdirText(p), SubdirText(q))}

\* the else of line 165 lost: a marked directory is always restored
ClassifyNoElse(hasAttr, isMatch, covered) ==
    IF hasAttr THEN (IF isMatch THEN {"ignored", "clear"} ELSE {"clear"})
    ELSE IF isMatch /\ ~covered THEN {"ignore"}
    ELSE {}

\* a marked directory is never restored
ClassifyNoClear(hasAttr, isMatch, covered) ==
    IF hasAttr THEN (IF isMatch THEN {"ignored"} ELSE {})
    ELSE IF isMatch /\ ~covered THEN {"ignore"}
    ELSE {}

\* lines 159-174: the lists subdir is appended to
Classify(hasAttr, isMatch, covered) ==
    IF hasAttr THEN (IF isMatch THEN {"ignored"} ELSE {"clear"})
    ELSE IF isMatch /\ ~covered THEN {"ignore"}
    ELSE {}

\* line 140: glob._ishidden = lambda x: False
SearchPredicate == "all_visible"

----------------------------------------------------------------------------
(* The state machine *)

TypeOK ==
    /\ pc \in {"start", "search", "iter", "set", "clear", "done", "error", "exit"}
    /\ err \in {"none", "config", "query", "mutate"}
    /\ ishidden \in {"glob", "all_visible"}
    /\ marker \subseteq tree
    /\ second \in BOOLEAN

InitCommon ==
    /\ ishidden = "glob"
    /\ initIshidden = ishidden
    /\ patterns = {}
    /\ ignorePaths = <<>>
    /\ ignoredPaths = <<>>
    /\ ignoreClearPaths = <<>>
    /\ stack = <<>>
    /\ pc = "start"
    /\ idx = 0
    /\ err = "none"
    /\ second = FALSE
    /\ marker0 = marker
    /\ marker1 = marker
    /\ visited = {}
    /\ queried = {}
    /\ attempted = {}
    /\ skips = {}

Init ==
    /\ tree \in TreesUpTo(MaxDirs)
    /\ marker \in SUBSET tree
    /\ \/ fileExists = TRUE /\ ignoreLines \in IgnoreFiles
       \/ fileExists = FALSE /\ ignoreLines = << <<>> >>
    /\ InitCommon

\* one line of every text over LineAlphabet, below a root without directories
InitLoad ==
    /\ tree = {<<>>}
    /\ marker = {}
    /\ fileExists = TRUE
    /\ \E l \in LinesUpTo(MaxLineLen) : ignoreLines = <<l>>
    /\ InitCommon

\* set_ignore, line 214, on a missing file: read_text raises
ReadMissing ==
    /\ pc = "start"
    /\ ReadTextRaises(fileExists)
    /\ pc' = "error"
    /\ err' = "config"
    /\ UNCHANGED <<tree, marker, fileExists, ignoreLines, ishidden, initIshidden, patterns,
                   ignorePaths, ignoredPaths, ignoreClearPaths, stack, idx, second,
                   marker0, marker1, visited, queried, attempted, skips>>

\* set_ignore, line 214: _read_ignore_patterns
ReadIgnorePatterns ==
    /\ pc = "start"
    /\ ~ReadTextRaises(fileExists)
    /\ patterns' = ReadPatterns(ignoreLines)
    /\ pc' = "search"
    /\ UNCHANGED <<tree, marker, fileExists, ignoreLines, ishidden, initIshidden,
                   ignorePaths, ignoredPaths, ignoreClearPaths, stack, idx, err, second,
                   marker0, marker1, visited, queried, attempted, skips>>

\* _search_ignore_path, lines 140-153: the override, the empty lists, the generator
SearchStart ==
    /\ pc = "search"
    /\ ishidden' = SearchPredicate
    /\ ignorePaths' = <<>>
    /\ ignoredPaths' = <<>>
    /\ ignoreClearPaths' = <<>>
    /\ stack' = <<{<<>>}>>
    /\ pc' = "iter"
    /\ UNCHANGED <<tree, marker, fileExists, ignoreLines, initIshidden, patterns, idx, err,
                   second, marker0, marker1, visited, queried, attempted, skips>>

\* lines 153-157: the next directory lies below an already excluded one
SearchSkip ==
    /\ pc = "iter"
    /\ stack # <<>>
    /\ \E x \in Head(stack) :
        /\ CoveredBy(x, ignoredPaths) # {}
        /\ stack' = Advance(stack, x, tree, ishidden)
        /\ visited' = visited \cup {x}
        /\ skips' = skips \cup {<<x, q>> : q \in CoveredBy(x, ignoredPaths)}
    /\ UNCHANGED <<tree, marker, fileExists, ignoreLines, ishidden, initIshidden, patterns,
                   ignorePaths, ignoredPaths, ignoreClearPaths, pc, idx, err, second,
                   marker0, marker1, queried, attempted>>

\* line 159: xattr.listxattr raises (the directory vanished, no permission)
SearchQueryFail ==
    /\ pc = "iter"
    /\ stack # <<>>
    /\ \E x \in Head(stack) :
        /\ CoveredBy(x, ignoredPaths) = {}
        /\ visited' = visited \cup {x}
        /\ queried' = queried \cup {x}
    /\ pc' = "error"
    /\ err' = "query"
    /\ UNCHANGED <<tree, marker, fileExists, ignoreLines, ishidden, initIshidden, patterns,
                   ignorePaths, ignoredPaths, ignoreClearPaths, stack, idx, second,
                   marker0, marker1, attempted, skips>>

\* lines 159-174: the next directory is classified
SearchClassify ==
    /\ pc = "iter"
    /\ stack # <<>>
    /\ \E x \in Head(stack) :
        /\ CoveredBy(x, ignoredPaths) = {}
        /\ LET hasAttr == x \in marker
               isMatch == MatchIgnorePattern(x, patterns)
               cover   == CoveredBy(x, ignoredPaths \o ignorePaths)
               to      == Classify(hasAttr, isMatch, cover # {})
           IN  /\ ignoredPaths' = IF "ignored" \in to THEN Append(ignoredPaths, x)
                                  ELSE ignoredPaths
               /\ ignoreClearPaths' = IF "clear" \in to THEN Append(ignoreClearPaths, x)
                                      ELSE ignoreClearPaths
               /\ ignorePaths' = IF "ignore" \in to THEN Append(ignorePaths, x)
                                 ELSE ignorePaths
               /\ skips' = IF ~hasAttr /\ isMatch
                           THEN skips \cup {<<x, q>> : q \in cover}
                           ELSE skips
        /\ stack' = Advance(stack, x, tree, ishidden)
        /\ visited' = visited \cup {x}
        /\ queried' = queried \cup {x}
    /\ UNCHANGED <<tree, marker, fileExists, ignoreLines, ishidden, initIshidden, patterns,
                   pc, idx, err, second, marker0, marker1, attempted>>

\* line 176: the generator is exhausted, the predicate is put back
SearchEnd ==
    /\ pc = "iter"
    /\ stack = <<>>
    /\ ishidden' = initIshidden
    /\ pc' = "set"
    /\ idx' = 1
    /\ UNCHANGED <<tree, marker, fileExists, ignoreLines, initIshidden, patterns,
                   ignorePaths, ignoredPaths, ignoreClearPaths, stack, err, second,
                   marker0, marker1, visited, queried, attempted, skips>>

\* lines 224-226: xattr.setxattr on the next path to exclude
SetXattr ==
    /\ pc = "set"
    /\ idx <= Len(ignorePaths)
    /\ marker' = marker \cup {ignorePaths[idx]}
    /\ attempted' = attempted \cup {ignorePaths[idx]}
    /\ idx' = idx + 1
    /\ UNCHANGED <<tree, fileExists, ignoreLines, ishidden, initIshidden, patterns,
                   ignorePaths, ignoredPaths, ignoreClearPaths, stack, pc, err, second,
                   marker0, marker1, visited, queried, skips>>

\* line 226: xattr.setxattr raises; nothing in set_ignore catches it
SetXattrFail ==
    /\ pc = "set"
    /\ idx <= Len(ignorePaths)
    /\ attempted' = attempted \cup {ignorePaths[idx]}
    /\ pc' = "error"
    /\ err' = "mutate"
    /\ UNCHANGED <<tree, marker, fileExists, ignoreLines, ishidden, initIshidden, patterns,
                   ignorePaths, ignoredPaths, ignoreClearPaths, stack, idx, second,
                   marker0, marker1, visited, queried, skips>>

\* line 229: the first loop is over
SetEnd ==
    /\ pc = "set"
    /\ idx > Len(ignorePaths)
    /\ pc' = "clear"
    /\ idx' = 1
    /\ UNCHANGED <<tree, marker, fileExists, ignoreLines, ishidden, initIshidden, patterns,
                   ignorePaths, ignoredPaths, ignoreClearPaths, stack, err, second,
                   marker0, marker1, visited, queried, attempted, skips>>

\* the attribute is left in place
RemoveKeeps(m, p) == m

\* xattr.removexattr(path, key)
Remove(m, p) == m \ {p}

\* lines 229-231: xattr.removexattr on the next path to restore
RemoveXattr ==
    /\ pc = "clear"
    /\ idx <= Len(ignoreClearPaths)
    /\ marker' = Remove(marker, ignoreClearPaths[idx])
    /\ attempted' = attempted \cup {ignoreClearPaths[idx]}
    /\ idx' = idx + 1
    /\ UNCHANGED <<tree, fileExists, ignoreLines, ishidden, initIshidden, patterns,
                   ignorePaths, ignoredPaths, ignoreClearPaths, stack, pc, err, second,
                   marker0, marker1, visited, queried, skips>>

\* line 231: xattr.removexattr raises
RemoveXattrFail ==
    /\ pc = "clear"
    /\ idx <= Len(ignoreClearPaths)
    /\ attempted' = attempted \cup {ignoreClearPaths[idx]}
    /\ pc' = "error"
    /\ err' = "mutate"
    /\ UNCHANGED <<tree, marker, fileExists, ignoreLines, ishidden, initIshidden, patterns,
                   ignorePaths, ignoredPaths, ignoreClearPaths, stack, idx, second,
                   marker0, marker1, visited, queried, skips>>

\* set_ignore returns
ClearEnd ==
    /\ pc = "clear"
    /\ idx > Len(ignoreClearPaths)
    /\ pc' = "done"
    /\ UNCHANGED <<tree, marker, fileExists, ignoreLines, ishidden, initIshidden, patterns,
                   ignorePaths, ignoredPaths, ignoreClearPaths, stack, idx, err, second,
                   marker0, marker1, visited, queried, attempted, skips>>

\* set_ignore is called again after it returned, on the same tree and file
Rerun ==
    /\ pc = "done"
    /\ ~second
    /\ second' = TRUE
    /\ pc' = "start"
    /\ marker0' = marker
    /\ visited' = {}
    /\ queried' = {}
    /\ attempted' = {}
    /\ skips' = {}
    /\ UNCHANGED <<tree, marker, fileExists, ignoreLines, ishidden, initIshidden, patterns,
                   ignorePaths, ignoredPaths, ignoreClearPaths, stack, idx, err, marker1>>

\* __del__, lines 81-82, when set_ignore raised and the object is collected (after
\* set_ignore returned, line 176 has put the predicate back already)
Del ==
    /\ pc = "error"
    /\ ishidden' = initIshidden
    /\ pc' = "exit"
    /\ UNCHANGED <<tree, marker, fileExists, ignoreLines, initIshidden, patterns,
                   ignorePaths, ignoredPaths, ignoreClearPaths, stack, idx, err, second,
                   marker0, marker1, visited, queried, attempted, skips>>

Next ==
    \/ ReadMissing
    \/ ReadIgnorePatterns
    \/ SearchStart
    \/ SearchSkip
    \/ SearchQueryFail
    \/ SearchClassify
    \/ SearchEnd
    \/ SetXattr
    \/ SetXattrFail
    \/ SetEnd
    \/ RemoveXattr
    \/ RemoveXattrFail
    \/ ClearEnd
    \/ Rerun
    \/ Del

Spec == Init /\ [][Next]_vars

\* the line filter alone
NextLoad == ReadIgnorePatterns

SpecLoad == InitLoad /\ [][NextLoad]_vars

----------------------------------------------------------------------------
(* Properties *)

\* _search_ignore_path has returned in the current call
SearchEnded == pc \in {"set", "clear", "done"}

AllLists == ignoredPaths \o ignorePaths \o ignoreClearPaths

Matches(d) == MatchIgnorePattern(d, patterns)

\* some directory strictly above d is an entry of paths
HasAncestorIn(d, paths) == \E q \in Range(paths) : StrictDescendant(d, q)

\* C1: pruning correctness. Once the classification has ended, no directory
\* strictly below an entry of _ignore_paths or _ignored_paths is an entry of any of
\* the three lists.
PruningCorrectness ==
    SearchEnded =>
        \A d \in Range(ignorePaths) \cup Range(ignoredPaths) :
            \A e \in Range(AllLists) : ~StrictDescendant(e, d)

\* C2: idempotence. In a second call of set_ignore that follows a first call in
\* which every setxattr and removexattr succeeded, on the same tree and ignore
\* file, the classification leaves _ignore_paths and _ignore_clear_paths empty and
\* the call changes no marker.
Idempotence ==
    (second /\ SearchEnded) =>
        /\ ignorePaths = <<>>
        /\ ignoreClearPaths = <<>>
        /\ marker = marker0

\* the second call has returned after a first call that both set and removed markers
IdempotenceWitness ==
    /\ second
    /\ pc = "done"
    /\ marker0 \ marker1 # {}
    /\ marker1 \ marker0 # {}
    /\ ignoredPaths # <<>>

\* C3: disjointness. At every point of the classification and after it, no
\* directory occurs twice in the three lists taken together: not in two lists, and
\* not twice in one.
Disjointness ==
    \A i, j \in 1..Len(AllLists) : AllLists[i] = AllLists[j] => i = j

\* the classification has ended with an entry in each of the three lists
DisjointnessWitness ==
    /\ SearchEnded
    /\ ignoredPaths # <<>>
    /\ ignorePaths # <<>>
    /\ ignoreClearPaths # <<>>

\* C4: per-path failure isolation. When a setxattr or removexattr has failed,
\* set_ignore has still called setxattr or removexattr on every path of
\* _ignore_paths and _ignore_clear_paths by the time it ends.
FailureIsolation ==
    (pc = "error" /\ err = "mutate") =>
        Range(ignorePaths) \cup Range(ignoreClearPaths) \subseteq attempted

\* C5: a missing ignore file ends set_ignore in an error before any effect: no
\* traversal has started, no directory was queried, no marker was set or removed,
\* and glob._ishidden is untouched.
MissingFileAborts ==
    (~fileExists /\ pc # "start") =>
        /\ pc \in {"error", "exit"}
        /\ err = "config"
        /\ stack = <<>>
        /\ visited = {}
        /\ queried = {}
        /\ attempted = {}
        /\ marker = marker0
        /\ ishidden = initIshidden

\* set_ignore has raised on a missing file, over a tree with marked directories
MissingFileWitness ==
    /\ ~fileExists
    /\ pc = "error"
    /\ marker # {}
    /\ Cardinality(tree) > 2

BlankOrComment(line) ==
    LET t == RStrip(LStrip(line, {" ", "\t", "\r"}), {" ", "\t", "\r"})
    IN  t = <<>> \/ Head(t) = "#"

\* C7: line filtering. After the ignore file is read, a line of it is missing from
\* the patterns if and only if, trimmed of spaces, tabs and carriage returns, it is
\* empty or begins with "#".
LineFiltering ==
    pc # "start" =>
        \A i \in 1..Len(ignoreLines) :
            (ignoreLines[i] \notin patterns) <=> BlankOrComment(ignoreLines[i])

\* C8: ancestor coverage is containment in the tree. A directory p is passed over
\* because of a list entry q (line 156 or line 172) only if p is q or lies below q;
\* and once the classification has ended, every visited directory with no
\* directory above it in _ignored_paths is in the list its own marker and match
\* give: _ignored_paths, _ignore_clear_paths, or _ignore_paths unless a directory
\* above it is in _ignore_paths.
AncestorCoverage ==
    /\ \A pq \in skips : IsSelfOrDescendant(pq[1], pq[2])
    /\ SearchEnded =>
          \A d \in visited :
              ~HasAncestorIn(d, ignoredPaths) =>
                  /\ (d \in marker0 /\ Matches(d)) => d \in Range(ignoredPaths)
                  /\ (d \in marker0 /\ ~Matches(d)) => d \in Range(ignoreClearPaths)
                  /\ (d \notin marker0 /\ Matches(d) /\ ~HasAncestorIn(d, ignorePaths))
                        => d \in Range(ignorePaths)

\* "a" was put in _ignore_paths and its sibling "ab", visited later, too
AncestorCoverageWitness ==
    /\ SearchEnded
    /\ \E i, j \in 1..Len(ignorePaths) :
          /\ i < j
          /\ ignorePaths[i] = <<"a">>
          /\ ignorePaths[j] = <<"ab">>

\* C9: scoped override. Outside the loop of _search_ignore_path, and so whenever
\* _search_ignore_path has ended, normally or with an exception of a marker query,
\* glob._ishidden is the predicate it was before the classification.
ScopedOverride ==
    pc # "iter" => ishidden = initIshidden

\* C10: convergence. When set_ignore has returned, every directory that matches
\* the patterns carries the marker or lies below a directory that does; every
\* directory that carries the marker matches or lies strictly below a marked
\* directory that matches; and the marker of every directory outside _ignore_paths
\* and _ignore_clear_paths is what it was before the call.
Convergence ==
    pc = "done" =>
        \A d \in tree :
            /\ Matches(d) => \E a \in marker : IsSelfOrDescendant(d, a)
            /\ d \in marker =>
                  \/ Matches(d)
                  \/ \E a \in marker : StrictDescendant(d, a) /\ Matches(a)
            /\ d \notin Range(ignorePaths) \cup Range(ignoreClearPaths) =>
                  (d \in marker <=> d \in marker0)

\* the first call has returned after setting and removing markers, and a matching
\* directory is left without a marker of its own below an excluded one
ConvergenceWitness ==
    /\ pc = "done"
    /\ ~second
    /\ ignorePaths # <<>>
    /\ ignoreClearPaths # <<>>
    /\ \E d \in tree : Matches(d) /\ d \notin marker

====
